---------------------------- MODULE Spec2Model ----------------------------
(***************************************************************************)
(* Model of the Crawler class of src/src/crawler.ts.                       *)
(*                                                                         *)
(* The crawler runs on the JavaScript event loop: every action below is    *)
(* one run-to-completion turn (a caller's call, a setImmediate callback,   *)
(* or the continuation of an await).  The work queue is async.queue; its   *)
(* bookkeeping (_tasks, numRunning, the deferred process(), idle/drain) is *)
(* modelled from the way the source uses it.                               *)
(*                                                                         *)
(* async.queue hands a worker its completion callback only when the worker *)
(* is not a native async function; a native async worker is called with    *)
(* the task alone and completes through its promise.  Which of the two the *)
(* arrow function of line 119 is depends on the compile target, so the     *)
(* model draws it once (hasCallback) and keeps it for the run; the guards  *)
(* `if (callback)` at lines 147 and 258 are the source's two sides of it.  *)
(***************************************************************************)
EXTENDS Integers, Sequences, FiniteSets, TLC

\* ------------------------------------------------------------------ bounds
MaxAdded == 3

\* constructor argument simultaneousRequests (line 68)
simultaneousRequests == 2

\* Crawler.DefaultMinimumWordLength (line 13), the minimumWordLength of the run
minimumWordLength == 3

\* ------------------------------------------------------------------- world
SeedA == "https://a.test"
LinkNext == "https://a.test/next"
LinkOther == "https://other.com/b"
LinkMail == "mailto:x@a.test"

\* urls the caller passes to enqueueCrawl or to the constructor's crawledUrls
SeedUrls == {SeedA, LinkNext}

\* constructor argument interestingDomains (line 74)
interestingDomains == {"a.test"}

\* what page.$$eval('a', ...) can return (line 199): arrays of hrefs
HrefLists ==
  { <<>>,
    <<LinkNext, LinkOther>>,
    <<LinkNext, LinkMail, LinkNext>> }

\* page texts, as sequences of characters (line 190)
TextDog == <<"t","h","e"," ","d","o","g"," ","s","a","t">>
TextDogs == <<"D","o","g","s"," ","s","a","t">>
TextNone == <<"s","a","t">>
PageTexts == {TextDog, TextDogs, TextNone}

\* the inputs of the matcher when it is checked on its own: texts with a
\* line break and with two spaces in a row, dictionaries, word lengths
TextLines == <<"d","o","g","s","\n","c","a","t","s">>
TextSpaces == <<"c","a","t","s"," "," ","d","o","g">>
MatchTexts == PageTexts \cup {TextLines, TextSpaces}
MatchWords ==
  { <<"d","o","g">>, <<"c","a","t">>, <<"d","o","g","s">>, <<"c","a","t","s">> }
MinLengths == {2, 3, 4}

\* constructor argument dictionary (line 65)
dictionary == { <<"d","o","g">>, <<"c","a","t">>, <<"d","o","g","s">> }

Undefined == "undefined"

\* ------------------------------------------------------- library semantics
\* String.prototype.toLowerCase on one character
LowerChar(c) ==
  CASE c = "D" -> "d"
    [] c = "C" -> "c"
    [] OTHER -> c

toLowerCase(w) == [i \in 1..Len(w) |-> LowerChar(w[i])]

\* String.prototype.split(' '): the pieces between single spaces
RECURSIVE SplitFrom(_, _, _)
SplitFrom(s, i, cur) ==
  IF i > Len(s) THEN <<cur>>
  ELSE IF s[i] = " " THEN <<cur>> \o SplitFrom(s, i + 1, <<>>)
  ELSE SplitFrom(s, i + 1, Append(cur, s[i]))

split(s) == SplitFrom(s, 1, <<>>)

\* ToBoolean of a callback's return value
ToBoolean(v) == v = "true"

\* Array.prototype.filter: keeps the elements whose callback value is
\* truthy; returned[i] is what the callback returned for arr[i]
RECURSIVE filter(_, _)
filter(arr, returned) ==
  IF arr = <<>> THEN <<>>
  ELSE LET rest == filter(Tail(arr), Tail(returned))
       IN IF ToBoolean(Head(returned)) THEN <<Head(arr)>> \o rest ELSE rest

\* Array.from(new Set(arr)): first occurrences, in order
RECURSIVE ArrayFromSet(_)
ArrayFromSet(arr) ==
  IF arr = <<>> THEN <<>>
  ELSE LET front == ArrayFromSet(SubSeq(arr, 1, Len(arr) - 1))
           last == arr[Len(arr)]
       IN IF \E i \in 1..Len(front) : front[i] = last
          THEN front ELSE Append(front, last)

Range(s) == {s[i] : i \in 1..Len(s)}

\* new CrawlableLink(link): crawlable iff an absolute http/https url
CrawlableLink(link) ==
  [ isCrawlable |-> IF link = LinkMail THEN "false" ELSE "true",
    crawlableUrl |-> link,
    hostname |-> CASE link \in {SeedA, LinkNext} -> "a.test"
                   [] link = LinkOther -> "other.com"
                   [] OTHER -> "" ]

\* ------------------------------------------------------------ page pipeline
\* a length test that lets words of the minimum length through
longEnoughInclusive(word, minLength) == Len(word) >= minLength

\* line 195: word.length > this.minimumWordLength
longEnough(word, minLength) == Len(word) > minLength

\* lines 192-195, for a given minimumWordLength
WordsOf(content, minLength) ==
  SelectSeq([i \in 1..Len(split(content)) |-> toLowerCase(split(content)[i])],
            LAMBDA w : longEnough(w, minLength))

\* lines 205, 222-226, for a given dictionary and minimumWordLength
Match(content, dict, minLength) ==
  {w \in Range(WordsOf(content, minLength)) : w \in dict}

\* lines 192-195
Words(content) == WordsOf(content, minimumWordLength)

\* lines 205, 222-226
Found(content) == Match(content, dictionary, minimumWordLength)

\* line 203
Hrefs(hrefsFromPage) == ArrayFromSet(hrefsFromPage)

\* lines 209-211: the callback's body is the expression statement
\* `link.isCrawlable`; nothing is returned
CrawlableCallback(link) == Undefined

\* lines 207-212
ValidLinks(hrefs) ==
  LET links == [i \in 1..Len(hrefs) |-> CrawlableLink(hrefs[i])]
      kept == filter(links, [i \in 1..Len(links) |-> CrawlableCallback(links[i])])
  IN [i \in 1..Len(kept) |-> kept[i].crawlableUrl]

\* lines 215-217: again an expression statement, nothing is returned
InterestingCallback(link) == Undefined

\* lines 214-217: the links handed to forEach(this.enqueueCrawl)
LinksToEnqueue(validLinks) ==
  filter(validLinks,
         [i \in 1..Len(validLinks) |-> InterestingCallback(validLinks[i])])


\* every url the model can name
Urls == SeedUrls \cup {LinkOther, LinkMail}

\* ------------------------------------------------------------------- state
VARIABLES
  phase,               \* "constructed", "ready" (init resolved), "failed" (init rejected)
  hasCallback,         \* does the queue hand the worker a callback (line 119)
  takeScreenshots,     \* line 78
  seeded,              \* the constructor's crawledUrls argument (line 59)
  crawledUrls,         \* line 28
  counter,             \* line 19
  numberAdded,         \* line 31
  finished,            \* line 27
  browser,             \* line 24: "null", "open", "closing", "closed"
  tasks,               \* urlQueue: the queued items, oldest first
  numRunning,          \* urlQueue: workers started and not yet completed
  processingScheduled, \* urlQueue: a deferred process() is pending
  inflight,            \* the performCrawl executions suspended at an await
  drainCount,          \* history: how often the drain callback ran
  fetchCount,          \* history: how often page.goto was called, per url
  attempts,            \* history: how often enqueueCrawl was called on the
                       \* initialized crawler, per url
  reached,             \* history: urls given by the caller or found as
                       \* crawlable links to an interesting domain
  mText, mDict, mMin,  \* the matcher on its own: page text, dictionary,
                       \* minimumWordLength
  mPc,                 \* "off", "start", "done"
  mMatches, mKind,     \* the set found (line 205) and the result built
  threw,               \* history: enqueueCrawl threw after init() rejected
  openPages            \* the pages of the browser opened (line 182) and
                       \* not closed (line 255)

vars ==
  << phase, hasCallback, takeScreenshots, seeded, crawledUrls, counter,
     numberAdded, finished, browser, tasks, numRunning, processingScheduled,
     inflight, drainCount, fetchCount, attempts, reached,
     mText, mDict, mMin, mPc, mMatches, mKind, threw, openPages >>

matcher == << mText, mDict, mMin, mPc, mMatches, mKind >>

config == << hasCallback, takeScreenshots, seeded >>

\* lines 64-79
Init ==
  /\ phase = "constructed"
  /\ hasCallback \in BOOLEAN
  /\ takeScreenshots \in BOOLEAN
  /\ seeded \in SUBSET SeedUrls
  /\ crawledUrls = seeded
  /\ counter = 0
  /\ numberAdded = 0
  /\ finished = FALSE
  /\ browser = "null"
  /\ tasks = <<>>
  /\ numRunning = 0
  /\ processingScheduled = FALSE
  /\ inflight = <<>>
  /\ drainCount = 0
  /\ fetchCount = [u \in Urls |-> 0]
  /\ attempts = [u \in Urls |-> 0]
  /\ reached = {}
  /\ mText = <<>>
  /\ mDict = {}
  /\ mMin = 0
  /\ mPc = "off"
  /\ mMatches = {}
  /\ mKind = "null"
  /\ threw = FALSE
  /\ openPages = 0

\* --------------------------------------------------- the queue's bookkeeping
\* the part of the state the queue's synchronous routines read and write
QState ==
  [ tasks |-> tasks, numRunning |-> numRunning, inflight |-> inflight,
    crawledUrls |-> crawledUrls, counter |-> counter, finished |-> finished,
    browser |-> browser, drainCount |-> drainCount ]

SetQState(q) ==
  /\ tasks' = q.tasks
  /\ numRunning' = q.numRunning
  /\ inflight' = q.inflight
  /\ crawledUrls' = q.crawledUrls
  /\ counter' = q.counter
  /\ finished' = q.finished
  /\ browser' = q.browser
  /\ drainCount' = q.drainCount

\* lines 267-275: close() calls browser.close() and awaits it
close(b) == IF b \in {"null", "closed"} THEN b ELSE "closing"

\* lines 124-131: the drain callback, up to its await
drain(q) ==
  [q EXCEPT !.finished = TRUE,
            !.drainCount = @ + 1,
            !.browser = close(@)]

\* a completion callback that looks at the queue only
idleIgnoresRunning(q) == Len(q.tasks) = 0

\* the queue is idle: nothing queued, nothing running
idle(q) == Len(q.tasks) + q.numRunning = 0

\* the queue's completion callback of one task (lines 148, 259, or the
\* settling of the worker's promise): the slot is released and the drain
\* callback runs if the queue is idle
taskDone(q) ==
  LET q1 == [q EXCEPT !.numRunning = @ - 1]
  IN IF idle(q1) THEN drain(q1) ELSE q1

\* a performCrawl execution suspended at an await
Execution(url, pc) ==
  [ url |-> url, pc |-> pc, result |-> "null", matches |-> {},
    links |-> <<>>, hrefs |-> <<>>, emitted |-> 0 ]

\* a performCrawl with line 155 twice
performCrawlStartCountsTwice(q, url) ==
  IF url \in q.crawledUrls /\ hasCallback
  THEN taskDone(q)
  ELSE [q EXCEPT !.crawledUrls = @ \cup {url},
                 !.counter = @ + 2,
                 !.inflight = Append(@, Execution(url, "newPage"))]

\* lines 145-182: performCrawl from its start to its first await
performCrawlStart(q, url) ==
  IF url \in q.crawledUrls /\ hasCallback
  THEN taskDone(q)
  ELSE [q EXCEPT !.crawledUrls = @ \cup {url},
                 !.counter = @ + 1,
                 !.inflight = Append(@, Execution(url, "newPage"))]

\* a queue that starts one worker too many
slotFreeOffByOne(q) == q.numRunning <= simultaneousRequests

\* line 122: the queue's concurrency is simultaneousRequests
slotFree(q) == q.numRunning < simultaneousRequests

\* lines 119-122: the queue starts workers while a slot is free and a task
\* is queued; each worker runs synchronously to its first await
RECURSIVE process(_)
process(q) ==
  IF slotFree(q) /\ q.tasks # <<>>
  THEN process(performCrawlStart(
         [q EXCEPT !.tasks = Tail(@), !.numRunning = @ + 1], Head(q.tasks)))
  ELSE q

RemoveAt(s, i) == SubSeq(s, 1, i - 1) \o SubSeq(s, i + 1, Len(s))


\* the crawlable links of a page whose hostname is an interesting domain
InterestingLinks(hrefs) ==
  {l \in Range(hrefs) :
     /\ CrawlableLink(l).isCrawlable = "true"
     /\ CrawlableLink(l).hostname \in interestingDomains}

\* ----------------------------------------------------------------- actions
\* lines 109-137: init() resolves; the browser is launched, the queue and
\* its drain callback exist
InitResolved ==
  /\ phase = "constructed"
  /\ phase' = "ready"
  /\ browser' = "open"
  /\ UNCHANGED << config, matcher, openPages, threw, crawledUrls, counter, numberAdded, finished, tasks,
                  numRunning, processingScheduled, inflight, drainCount,
                  fetchCount, attempts, reached >>

\* line 114: puppeteer.launch rejects, init() rejects before line 119
InitRejected ==
  /\ phase = "constructed"
  /\ phase' = "failed"
  /\ UNCHANGED << config, matcher, openPages, threw, crawledUrls, counter, numberAdded, finished, browser,
                  tasks, numRunning, processingScheduled, inflight, drainCount,
                  fetchCount, attempts, reached >>

\* this.urlQueue is undefined before init() resolved and after it
\* rejected: line 282 throws a TypeError and line 283 is not reached
enqueueCrawlThrows ==
  /\ threw' = (threw \/ phase = "failed")
  /\ UNCHANGED << phase, config, matcher, openPages, crawledUrls, counter, numberAdded,
                  finished, browser, tasks, numRunning, processingScheduled,
                  inflight, drainCount, fetchCount, attempts, reached >>

\* an enqueueCrawl that forgets line 283
enqueueCrawlNoCount(url) ==
  IF phase = "ready"
  THEN /\ numberAdded < MaxAdded
       /\ tasks' = Append(tasks, url)
       /\ processingScheduled' = TRUE
       /\ attempts' = [attempts EXCEPT ![url] = @ + 1]
       /\ reached' = reached \cup {url}
       /\ UNCHANGED << phase, config, matcher, openPages, threw, crawledUrls, counter,
                       finished, browser, numRunning, inflight, drainCount,
                       fetchCount, numberAdded >>
  ELSE enqueueCrawlThrows

\* an enqueueCrawl with lines 282 and 283 swapped: it counts the url
\* before it pushes it
enqueueCrawlCountsFirst(url) ==
  /\ numberAdded < MaxAdded
  /\ numberAdded' = numberAdded + 1
  /\ IF phase = "ready"
     THEN /\ tasks' = Append(tasks, url)
          /\ processingScheduled' = TRUE
          /\ attempts' = [attempts EXCEPT ![url] = @ + 1]
          /\ reached' = reached \cup {url}
          /\ UNCHANGED << phase, config, matcher, openPages, threw, crawledUrls, counter,
                          finished, browser, numRunning, inflight, drainCount,
                          fetchCount >>
     ELSE /\ threw' = (threw \/ phase = "failed")
          /\ UNCHANGED << phase, config, matcher, openPages, crawledUrls, counter,
                          finished, browser, tasks, numRunning,
                          processingScheduled, inflight, drainCount,
                          fetchCount, attempts, reached >>

\* lines 281-284, called by the crawler's user; push defers process()
enqueueCrawl(url) ==
  IF phase = "ready"
  THEN /\ numberAdded < MaxAdded
       /\ tasks' = Append(tasks, url)
       /\ processingScheduled' = TRUE
       /\ numberAdded' = numberAdded + 1
       /\ attempts' = [attempts EXCEPT ![url] = @ + 1]
       /\ reached' = reached \cup {url}
       /\ UNCHANGED << phase, config, matcher, openPages, threw, crawledUrls, counter,
                       finished, browser, numRunning, inflight, drainCount,
                       fetchCount >>
  ELSE enqueueCrawlThrows

\* the deferred process() of the queue runs
Process ==
  /\ processingScheduled
  /\ processingScheduled' = FALSE
  /\ SetQState(process(QState))
  /\ UNCHANGED << phase, config, matcher, openPages, threw, numberAdded, fetchCount, attempts, reached >>

\* a task completes outside process(): the completion callback, then process()
Complete(q) == SetQState(process(taskDone(q)))

\* line 182 resolves: the page is open and line 185 calls page.goto
NewPageResolved(i) ==
  /\ i \in 1..Len(inflight)
  /\ inflight[i].pc = "newPage"
  /\ browser = "open"
  /\ inflight' = [inflight EXCEPT ![i].pc = "goto"]
  /\ openPages' = openPages + 1
  /\ fetchCount' = [fetchCount EXCEPT ![inflight[i].url] = @ + 1]
  /\ UNCHANGED << phase, config, matcher, threw, crawledUrls, counter, numberAdded, finished,
                  browser, tasks, numRunning, processingScheduled, drainCount,
                  attempts, reached >>

\* line 182 rejects (the browser is closing or closed); the rejection is
\* outside the try of line 184, so performCrawl rejects.  With a callback
\* the queue never hears of it and the slot stays taken; without one the
\* queue takes the rejection as the task's completion.
NewPageRejected(i) ==
  /\ i \in 1..Len(inflight)
  /\ inflight[i].pc = "newPage"
  /\ browser # "open"
  /\ IF hasCallback
     THEN /\ inflight' = [inflight EXCEPT ![i].pc = "rejected"]
          /\ UNCHANGED << crawledUrls, counter, finished, browser, tasks,
                          numRunning, drainCount >>
     ELSE Complete([QState EXCEPT !.inflight = RemoveAt(@, i)])
  /\ UNCHANGED << phase, config, matcher, openPages, threw, numberAdded, processingScheduled,
                  fetchCount, attempts, reached >>

\* a finally block that does not close the page
closePageLeaks(pages) == pages

\* line 255: await page.close()
closePage(pages) == pages - 1

\* a result that is written to output twice
outputTwice(e) == [e EXCEPT !.emitted = @ + 2]

\* line 245: this.output(result); emitted counts the results an execution
\* has passed to output
output(e) == [e EXCEPT !.emitted = @ + 1]

\* a catch block that rethrows: performCrawl rejects
CaughtRethrows(e) == [e EXCEPT !.result = "error", !.pc = "rejected"]

\* lines 249-256: the catch block, then finally calls page.close()
Caught(e) == [e EXCEPT !.result = "error", !.pc = "pageClose"]

\* lines 185-188, 190, 199 reject (timeout, network, protocol error)
FetchFailed(i) ==
  /\ i \in 1..Len(inflight)
  /\ inflight[i].pc = "goto"
  /\ inflight' = [inflight EXCEPT ![i] = Caught(@)]
  /\ UNCHANGED << phase, config, matcher, openPages, threw, crawledUrls, counter, numberAdded, finished,
                  browser, tasks, numRunning, processingScheduled, drainCount,
                  fetchCount, attempts, reached >>

\* lines 190-248: the page loaded; content and hrefs are what the page gave
Fetched(e, content, hrefsFromPage) ==
  LET hrefs == Hrefs(hrefsFromPage)
      validLinks == ValidLinks(hrefs)
      toEnqueue == LinksToEnqueue(validLinks)
      found == Found(content)
      seen == [e EXCEPT !.hrefs = hrefs]
  IN IF toEnqueue # <<>>
     THEN \* line 218 passes enqueueCrawl without its receiver: the first
          \* call throws on this.urlQueue and line 249 catches it
          Caught(seen)
     ELSE IF found # {}
     THEN LET result == [seen EXCEPT !.result = "found", !.matches = found,
                                     !.links = validLinks]
          IN IF takeScreenshots
             THEN [result EXCEPT !.pc = "screenshot"]
             ELSE [output(result) EXCEPT !.pc = "pageClose"]
     ELSE [seen EXCEPT !.result = "notfound", !.pc = "pageClose"]

FetchResolved(i) ==
  /\ i \in 1..Len(inflight)
  /\ inflight[i].pc = "goto"
  /\ \E content \in PageTexts, hrefsFromPage \in HrefLists :
       /\ inflight' = [inflight EXCEPT ![i] = Fetched(@, content, hrefsFromPage)]
       /\ reached' = reached \cup InterestingLinks(hrefsFromPage)
  /\ UNCHANGED << phase, config, matcher, openPages, threw, crawledUrls, counter, numberAdded, finished,
                  browser, tasks, numRunning, processingScheduled, drainCount,
                  fetchCount, attempts >>

\* lines 237-245: the screenshot is written, the result goes to output
ScreenshotResolved(i) ==
  /\ i \in 1..Len(inflight)
  /\ inflight[i].pc = "screenshot"
  /\ inflight' = [inflight EXCEPT ![i] = [output(@) EXCEPT !.pc = "pageClose"]]
  /\ UNCHANGED << phase, config, matcher, openPages, threw, crawledUrls, counter, numberAdded, finished,
                  browser, tasks, numRunning, processingScheduled, drainCount,
                  fetchCount, attempts, reached >>

\* line 237 rejects: line 249 catches it and replaces the result
ScreenshotRejected(i) ==
  /\ i \in 1..Len(inflight)
  /\ inflight[i].pc = "screenshot"
  /\ inflight' = [inflight EXCEPT ![i] = Caught(@)]
  /\ UNCHANGED << phase, config, matcher, openPages, threw, crawledUrls, counter, numberAdded, finished,
                  browser, tasks, numRunning, processingScheduled, drainCount,
                  fetchCount, attempts, reached >>

\* line 255 resolves; lines 258-260 (or the worker's promise) complete the task
PageClosed(i) ==
  /\ i \in 1..Len(inflight)
  /\ inflight[i].pc = "pageClose"
  /\ openPages' = closePage(openPages)
  /\ Complete([QState EXCEPT !.inflight = RemoveAt(@, i)])
  /\ UNCHANGED << phase, config, matcher, threw, numberAdded, processingScheduled,
                  fetchCount, attempts, reached >>

\* line 273 resolves: the browser is gone
BrowserClosed ==
  /\ browser = "closing"
  /\ browser' = "closed"
  /\ UNCHANGED << phase, config, matcher, openPages, threw, crawledUrls, counter, numberAdded, finished,
                  tasks, numRunning, processingScheduled, inflight, drainCount,
                  fetchCount, attempts, reached >>

Slots == 1..simultaneousRequests

Next ==
  \/ InitResolved
  \/ InitRejected
  \/ \E url \in SeedUrls : enqueueCrawl(url)
  \/ Process
  \/ \E i \in Slots : NewPageResolved(i)
  \/ \E i \in Slots : NewPageRejected(i)
  \/ \E i \in Slots : FetchFailed(i)
  \/ \E i \in Slots : FetchResolved(i)
  \/ \E i \in Slots : ScreenshotResolved(i)
  \/ \E i \in Slots : ScreenshotRejected(i)
  \/ \E i \in Slots : PageClosed(i)
  \/ BrowserClosed

Spec == Init /\ [][Next]_vars

\* a turn of the event loop that is not a call by the crawler's user
SystemStep ==
  \/ Process
  \/ \E i \in Slots :
       \/ NewPageResolved(i) \/ NewPageRejected(i)
       \/ FetchFailed(i) \/ FetchResolved(i)
       \/ ScreenshotResolved(i) \/ ScreenshotRejected(i)
       \/ PageClosed(i)
  \/ BrowserClosed

\* the event loop runs a turn that is ready: the deferred process() runs
\* and every await settles (a fetch returns, fails or times out)
FairSpec == Spec /\ WF_vars(SystemStep)

\* ------------------------------------------------- the matcher on its own
crawler ==
  << phase, hasCallback, takeScreenshots, seeded, crawledUrls, counter,
     numberAdded, finished, browser, tasks, numRunning, processingScheduled,
     inflight, drainCount, fetchCount, attempts, reached, threw,
     openPages >>

\* a crawler as constructed, and a page text, a dictionary and a
\* minimumWordLength for lines 192-248
MatchInit ==
  /\ phase = "constructed"
  /\ hasCallback = FALSE
  /\ takeScreenshots = FALSE
  /\ seeded = {}
  /\ crawledUrls = {}
  /\ counter = 0
  /\ numberAdded = 0
  /\ finished = FALSE
  /\ browser = "null"
  /\ tasks = <<>>
  /\ numRunning = 0
  /\ processingScheduled = FALSE
  /\ inflight = <<>>
  /\ drainCount = 0
  /\ fetchCount = [u \in Urls |-> 0]
  /\ attempts = [u \in Urls |-> 0]
  /\ reached = {}
  /\ threw = FALSE
  /\ openPages = 0
  /\ mText \in MatchTexts
  /\ mDict \in SUBSET MatchWords
  /\ mMin \in MinLengths
  /\ mPc = "start"
  /\ mMatches = {}
  /\ mKind = "null"

\* lines 192-195, 205, 222-248: the words are matched and the result is
\* found or not found
MatchApply ==
  /\ mPc = "start"
  /\ mPc' = "done"
  /\ mMatches' = Match(mText, mDict, mMin)
  /\ mKind' = IF mMatches' # {} THEN "found" ELSE "notfound"
  /\ UNCHANGED << crawler, mText, mDict, mMin >>

MatchNext == MatchApply

MatchSpec == MatchInit /\ [][MatchNext]_vars

\* the fields the executions keep
TypeOK ==
  /\ phase \in {"constructed", "ready", "failed"}
  /\ browser \in {"null", "open", "closing", "closed"}
  /\ crawledUrls \subseteq Urls
  /\ counter \in 0..MaxAdded
  /\ numberAdded \in 0..MaxAdded
  /\ numRunning \in 0..simultaneousRequests
  /\ Len(tasks) <= MaxAdded
  /\ \A i \in 1..Len(inflight) :
       inflight[i].pc \in {"newPage", "goto", "screenshot", "pageClose", "rejected"}


\* ------------------------------------------------------------------ claims
Executing(i) ==
  /\ i \in 1..Len(inflight)
  /\ inflight[i].pc \in {"newPage", "goto", "screenshot", "pageClose"}

\* the step in which execution i leaves page.goto (lines 185-248)
LeavesGoto(i) ==
  /\ i \in 1..Len(inflight)
  /\ inflight[i].pc = "goto"
  /\ Len(inflight') = Len(inflight)
  /\ inflight'[i].pc # "goto"

\* C1: page.goto is called at most once for every url, and never for a url
\* given in the constructor's crawledUrls.
C1_AtMostOneFetchPerUrl ==
  \A u \in Urls :
    /\ fetchCount[u] <= 1
    /\ u \in seeded => fetchCount[u] = 0

\* C2 (as stated): of the enqueueCrawl calls for one url only the first
\* pushes a task and increments numberAdded; a later call changes neither.
C2_OnlyFirstAttemptPushes ==
  [][\A u \in SeedUrls :
       (attempts[u] >= 1 /\ attempts'[u] = attempts[u] + 1)
         => (tasks' = tasks /\ numberAdded' = numberAdded)]_vars

\* C2 (amended): every enqueueCrawl call, also a repeated one for the same
\* url, pushes one task and increments numberAdded by one.
C2_EveryAttemptPushes ==
  [][\A u \in SeedUrls :
       attempts'[u] = attempts[u] + 1
         => (tasks' = Append(tasks, u) /\ numberAdded' = numberAdded + 1)]_vars

C2_RepeatedAttemptPushed ==
  /\ attempts[SeedA] = 2
  /\ tasks = <<SeedA, SeedA>>
  /\ numberAdded = 2

\* C3: the drain callback runs at most once in a run.
C3_DrainAtMostOnce == drainCount <= 1

\* C4: whenever the drain callback runs (and sets finished), no task is
\* queued and no performCrawl execution is in flight.
C4_DrainOnlyWhenIdle ==
  [][drainCount' # drainCount
       => /\ finished'
          /\ tasks' = <<>>
          /\ inflight' = <<>>
          /\ numRunning' = 0]_vars

C4_DrainedAfterWork ==
  /\ drainCount = 1
  /\ counter >= 2
  /\ tasks = <<>>
  /\ inflight = <<>>

\* C5: at most simultaneousRequests performCrawl executions have started
\* and not completed, and enqueueCrawl is never blocked by the queue's load.
C5_ConcurrencyBound ==
  /\ Len(inflight) <= simultaneousRequests
  /\ numRunning <= simultaneousRequests
  /\ (phase = "ready" /\ numberAdded < MaxAdded)
       => \A u \in SeedUrls : ENABLED enqueueCrawl(u)

C5_SaturatedWithBacklog ==
  /\ Len(inflight) = simultaneousRequests
  /\ \A i \in 1..Len(inflight) : Executing(i)
  /\ Len(tasks) >= 1

\* C6: a successful fetch enqueues exactly the page's crawlable links whose
\* hostname is an interesting domain.
C6_ExpansionEnqueuesInterestingLinks ==
  [][\A i \in Slots :
       (LeavesGoto(i) /\ inflight'[i].result \in {"found", "notfound"})
         => Range(SubSeq(tasks', Len(tasks) + 1, Len(tasks')))
              = InterestingLinks(inflight'[i].hrefs)]_vars

\* C7: the links of a Found result are all the distinct links of the page.
C7_FoundLinksComplete ==
  \A i \in 1..Len(inflight) :
    inflight[i].result = "found"
      => Range(inflight[i].links) = Range(inflight[i].hrefs)

\* C8: one seed whose page links to one unseen url of an interesting
\* domain: when the queue has drained, both urls were added and processed.
C8_EndToEnd ==
  ( /\ drainCount >= 1
    /\ seeded = {}
    /\ attempts[SeedA] = 1
    /\ attempts[LinkNext] = 0
    /\ LinkNext \in reached )
  => ( /\ numberAdded = 2
       /\ counter = 2
       /\ LinkNext \in crawledUrls )

FailedInFlight(i) ==
  /\ i \in 1..Len(inflight)
  /\ inflight[i].result = "error"

FailedAtClose(i) == FailedInFlight(i) /\ inflight[i].pc = "pageClose"

IsSuffix(t, u) == Len(t) <= Len(u) /\ t = SubSeq(u, Len(u) - Len(t) + 1, Len(u))

\* C9: a failed fetch gives that task the error result and nothing else:
\* the url is not queued again and stays crawled, the other executions and
\* the run are untouched and page.close() follows; the task's completion
\* then frees the slot: the next queued task starts, or the queue drains
\* if the failed task was the last one.
C9_FetchFailureIsolated ==
  [][\A i \in Slots :
       /\ (LeavesGoto(i) /\ inflight'[i].result = "error")
            => /\ inflight'[i].pc = "pageClose"
               /\ tasks' = tasks
               /\ inflight[i].url \in crawledUrls'
               /\ numRunning' = numRunning
               /\ finished' = finished
               /\ browser' = browser
               /\ \A j \in 1..Len(inflight) :
                    j # i => inflight'[j] = inflight[j]
       /\ (FailedAtClose(i) /\ PageClosed(i))
            => /\ IsSuffix(tasks', tasks)
               /\ inflight[i].url \in crawledUrls'
               /\ numRunning' = Len(inflight')
               /\ tasks # <<>> => Len(tasks') < Len(tasks)
               /\ (tasks = <<>> /\ Len(inflight) = 1)
                    => (finished' /\ drainCount' = drainCount + 1)]_vars

C9_FailedBesideAnother ==
  /\ Len(inflight) = 2
  /\ FailedInFlight(1)
  /\ inflight[1].pc = "pageClose"
  /\ inflight[2].pc = "goto"

\* C10: while the browser is being closed or is closed, no performCrawl
\* execution is running.
C10_NoWorkWhileClosed ==
  browser \in {"closing", "closed"} => \A i \in Slots : ~Executing(i)

\* C11: once the drain callback has set finished, enqueueCrawl accepts
\* nothing: no task is queued or in flight from then on.
C11_FinishedMeansNoWork ==
  finished => (tasks = <<>> /\ \A i \in Slots : ~Executing(i))

\* C12 (as stated): every task passes exactly one result to output before
\* it completes, whatever the result.
C12_OneResultToSinkPerTask ==
  \A i \in 1..Len(inflight) :
    inflight[i].pc = "pageClose" => inflight[i].emitted = 1

\* C12 (amended): a task passes at most one result to output, and only a
\* Found result; NotFound and Failed results are never passed to output,
\* and a Found result is passed once its screenshot, if any, was written.
C12_OnlyFoundToSink ==
  \A i \in 1..Len(inflight) :
    /\ inflight[i].emitted <= 1
    /\ inflight[i].emitted = 1 => inflight[i].result = "found"
    /\ inflight[i].pc = "pageClose"
         => (inflight[i].emitted = 1 <=> inflight[i].result = "found")

C12_FoundAndNotFoundAtClose ==
  /\ Len(inflight) = 2
  /\ inflight[1].pc = "pageClose" /\ inflight[1].result = "found"
  /\ inflight[1].emitted = 1
  /\ inflight[2].pc = "pageClose" /\ inflight[2].result = "notfound"
  /\ inflight[2].emitted = 0

\* C13: when the screenshot of a matching page fails, the task's result is
\* still Found, with the same matches and links, and is passed to output.
C13_ScreenshotFailureKeepsFound ==
  [][\A i \in Slots :
       ( /\ i \in 1..Len(inflight)
         /\ inflight[i].pc = "screenshot"
         /\ Len(inflight') = Len(inflight)
         /\ inflight'[i].pc = "pageClose" )
       => /\ inflight'[i].result = "found"
          /\ inflight'[i].matches = inflight[i].matches
          /\ inflight'[i].links = inflight[i].links
          /\ inflight'[i].emitted = 1]_vars

\* the lowercased tokens of a text: the maximal runs of characters that
\* are not separators
TokensBetween(text, separators) ==
  LET n == Len(text)
      runs == {r \in (1..n) \X (1..n) :
                 /\ r[1] <= r[2]
                 /\ \A k \in r[1]..r[2] : text[k] \notin separators
                 /\ r[1] = 1 \/ text[r[1] - 1] \in separators
                 /\ r[2] = n \/ text[r[2] + 1] \in separators}
  IN {toLowerCase(SubSeq(text, r[1], r[2])) : r \in runs}

Whitespace == {" ", "\n", "\t"}

WordDog == <<"d","o","g">>
WordCat == <<"c","a","t">>

\* C14: with minimum word length 3 and dictionary {dog, cat}, the text
\* "the dog sat" matches exactly {dog}.
C14_WordOfMinimumLengthMatches ==
  (mPc = "done" /\ mText = TextDog /\ mDict = {WordDog, WordCat} /\ mMin = 3)
    => mMatches = {WordDog}

C16_RunTerminates ==
  (numberAdded >= 1)
    ~> (finished /\ tasks = <<>> /\ inflight = <<>> /\ browser = "closed")

\* C17: when init() rejects because the browser cannot be launched, there
\* is no queue: nothing is ever queued, started or counted, no url is
\* added to crawledUrls and finished stays false.
C17_InitFailureSchedulesNothing ==
  phase = "failed" =>
    /\ tasks = <<>>
    /\ ~processingScheduled
    /\ inflight = <<>>
    /\ numRunning = 0
    /\ numberAdded = 0
    /\ counter = 0
    /\ crawledUrls = seeded
    /\ ~finished
    /\ drainCount = 0
    /\ browser = "null"

C17_EnqueueAfterFailedInit == phase = "failed" /\ threw

HoldsPage(i) ==
  /\ i \in 1..Len(inflight)
  /\ inflight[i].pc \in {"goto", "screenshot", "pageClose"}

\* C18: the open pages are exactly the pages of the executions between
\* browser.newPage() and page.close(), on every path: a task that has
\* completed has closed its page, there are never more open pages than
\* tasks in flight, and none when nothing is queued or in flight.
C18_PagesReleased ==
  /\ openPages = Cardinality({i \in Slots : HoldsPage(i)})
  /\ openPages <= Len(inflight)
  /\ (tasks = <<>> /\ inflight = <<>>) => openPages = 0

C18_AllPagesClosedAtDrain ==
  /\ finished
  /\ inflight = <<>>
  /\ openPages = 0
  /\ fetchCount[SeedA] = 1
  /\ fetchCount[LinkNext] = 1

\* C19: a task whose url is already in crawledUrls when it starts has no
\* effect: when the deferred process() finds only such urls queued, the
\* crawled set, both counters and the open pages stay as they are and no
\* execution goes on to fetch.
C19_AlreadyCrawledNoEffects ==
  [][( /\ processingScheduled
       /\ ~processingScheduled'
       /\ \A j \in 1..Len(tasks) : tasks[j] \in crawledUrls )
     => /\ crawledUrls' = crawledUrls
        /\ counter' = counter
        /\ numberAdded' = numberAdded
        /\ inflight' = inflight
        /\ openPages' = openPages
        /\ fetchCount' = fetchCount]_vars

\* C20: counter never exceeds numberAdded, neither counter decreases, and
\* whenever counter is incremented (lines 155-164) numberAdded is at
\* least 1, so counter / numberAdded is at most 1.
C20_CounterOrdering ==
  [][/\ counter' >= counter
     /\ numberAdded' >= numberAdded
     /\ counter' <= numberAdded'
     /\ counter' > counter => numberAdded' >= 1]_vars

C20_AllAddedProcessed ==
  /\ counter >= 2
  /\ counter = numberAdded

=============================================================================
